---- MODULE Spec2Model ----
(***************************************************************************)
(* View-state engine of json_explorer (jex): the flattener of              *)
(* parse_json.rs, the AppState of app_state.rs and the key dispatch of     *)
(* ui.rs::run_app.                                                         *)
(*                                                                         *)
(* Conventions.                                                            *)
(*  - Rust strings are sequences of one-character strings; ">" stands for  *)
(*    the breadcrumb arrow of parse_json.rs:105.                           *)
(*  - Option<T> is a sequence of length 0 (None) or 1 (Some(x)).           *)
(*  - Vec indices are 0-based as in the source: At(v, i) is v[i].          *)
(*  - A Rust panic (index out of range, slice out of range, arithmetic     *)
(*    overflow check) aborts the process; the handlers below return the    *)
(*    state they started from with panicked = TRUE.                        *)
(*  - JsonItem::selection_level is a rendering annotation that no          *)
(*    operation reads; its value is not represented, the indexing done     *)
(*    while computing it is.                                               *)
(***************************************************************************)
EXTENDS Integers, Sequences, FiniteSets

\* ------------------------------------------------------------------ bounds
\* documents have at most MaxRows rows once flattened
MaxRows == 6
\* height of the list chunk handed over by the renderer, 0..MaxListHeight
MaxListHeight == 3
\* page step of select_next / select_previous (terminal height - 5), 1..MaxStep
MaxStep == 2
\* longest query typed into the search input
MaxQueryLen == 1
\* longest query handed to search.rs
MaxSearchLen == 3

\* ------------------------------------------------------------ basic values
None == <<>>

Some(x) == <<x>>

IsSome(o) == Len(o) = 1

Unwrap(o) == o[1]

At(v, i) == v[i + 1]

Min(a, b) == IF a <= b THEN a ELSE b

Digits == <<"0", "1", "2", "3", "4", "5", "6", "7", "8", "9">>

RECURSIVE to_string(_)
\* usize::to_string
to_string(n) == IF n < 10 THEN <<Digits[n + 1]>> ELSE to_string(n \div 10) \o <<Digits[(n % 10) + 1]>>

\* the breadcrumb separator " > " (three characters)
Separator == <<" ", ">", " ">>

\* --------------------------------------------------------------- documents
\* serde_json::Value: kind is the variant, text the string form of a scalar,
\* children the members in map order (key = Some(k)) or the elements (key = None)
Scalar(kind, text) == [kind |-> kind, text |-> text, children |-> <<>>]

ScalarValues == {Scalar("String", <<"A">>)}

\* key of the j-th member of an object (keys are unique and in map order)
KeyOf(j) == IF j = 0 THEN <<"A", "b">> ELSE IF j = 1 THEN <<"a">> ELSE <<"b">> \o to_string(j)

AsArray(forest) == [kind |-> "Array", text |-> <<>>, children |-> [j \in 1..Len(forest) |-> [key |-> None, value |-> forest[j]]]]

AsObject(forest) == [kind |-> "Object", text |-> <<>>, children |-> [j \in 1..Len(forest) |-> [key |-> Some(KeyOf(j - 1)), value |-> forest[j]]]]

RECURSIVE TreesOfRows(_), ForestsOfRows(_)
\* the value trees that flatten to exactly n rows
TreesOfRows(n) == IF n = 1 THEN ScalarValues ELSE UNION {{AsArray(f), AsObject(f)} : f \in ForestsOfRows(n - 2)}

\* the sequences of value trees that flatten to exactly m rows in total
ForestsOfRows(m) == IF m = 0 THEN {<<>>} ELSE UNION {{<<t>> \o f : t \in TreesOfRows(k), f \in ForestsOfRows(m - k)} : k \in 1..m}

Documents == UNION {TreesOfRows(n) : n \in 1..MaxRows}

\* --------------------------------------------------------------- flattener
IsOpen(type) == type \in {"Array", "Object"}

IsEnd(type) == type \in {"ArrayEnd", "ObjectEnd"}

IsContainer(type) == IsOpen(type) \/ IsEnd(type)

\* JsonItem::new
JsonItem_new(name, indent, type, text, breadcrumbs, len) ==
  [name |-> name, indent |-> indent, value |-> [type |-> type, text |-> text], line_number |-> 0,
   collapsed |-> FALSE, visible |-> TRUE, breadcrumbs |-> breadcrumbs,
   name_is_search_result |-> FALSE, value_is_search_result |-> FALSE, len |-> len]

make_breadcrumbs(root, new, value_type) ==
  IF root = <<>> THEN new
  ELSE IF value_type = "Array" THEN root \o Separator \o <<"[">> \o new \o <<"]">>
  ELSE root \o Separator \o new

RECURSIVE parse_json(_, _, _, _), parse_children(_, _, _, _, _)
\* the rows pushed for the children j.. of a container
parse_children(value, j, indent, breadcrumbs, acc) ==
  IF j > Len(value.children) THEN acc
  ELSE LET child == value.children[j]
           segment == IF value.kind = "Object" THEN Unwrap(child.key) ELSE to_string(j - 1)
       IN parse_children(value, j + 1, indent, breadcrumbs,
            acc \o parse_json(child.value, child.key, indent + 1, make_breadcrumbs(breadcrumbs, segment, value.kind)))

\* parse_json with the closing row pushed one level too deep
parse_json_deep_end(root_value, title, indent, breadcrumbs) ==
  IF root_value.kind \in {"Object", "Array"}
  THEN parse_children(root_value, 1, indent, breadcrumbs,
         <<JsonItem_new(title, indent, root_value.kind, <<>>, breadcrumbs, Len(root_value.children))>>)
       \o <<JsonItem_new(None, indent + 1, IF root_value.kind = "Object" THEN "ObjectEnd" ELSE "ArrayEnd", <<>>, breadcrumbs, 0)>>
  ELSE <<JsonItem_new(title, indent, root_value.kind, root_value.text, breadcrumbs, 0)>>

\* the rows pushed to output for root_value
parse_json(root_value, title, indent, breadcrumbs) ==
  IF root_value.kind \in {"Object", "Array"}
  THEN parse_children(root_value, 1, indent, breadcrumbs,
         <<JsonItem_new(title, indent, root_value.kind, <<>>, breadcrumbs, Len(root_value.children))>>)
       \o <<JsonItem_new(None, indent, IF root_value.kind = "Object" THEN "ObjectEnd" ELSE "ArrayEnd", <<>>, breadcrumbs, 0)>>
  ELSE <<JsonItem_new(title, indent, root_value.kind, root_value.text, breadcrumbs, 0)>>

parse_json_string(root_value) ==
  LET json_vec == parse_json(root_value, None, 0, <<>>)
  IN [index \in 1..Len(json_vec) |-> [json_vec[index] EXCEPT !.line_number = index - 1]]

\* ---------------------------------------------------------------- AppState
\* renderer input: ui.rs stores the height of the list chunk before every key
\* is read; on a small terminal the layout leaves the list chunk no row at all
ListHeights == 0..MaxListHeight

\* update_search: above this number of values live search is deferred
LargeFileThreshold == 100000

InRange(v, i) == 0 <= i /\ i < Len(v)

Panic(s) == [s EXCEPT !.panicked = TRUE]

bottom_index(s) ==
  IF s.list_height < 2 THEN 1
  ELSE Min(s.top_index + s.list_height - 1, Len(s.visible_items))

\* a slice v[a..b] panics when a > b or b > len
SliceOk(v, a, b) == a <= b /\ b <= Len(v)

\* display_items: the slice visible_items[top_index..bottom_index()], or the
\* panic of that slice
display_items(s) ==
  IF ~SliceOk(s.visible_items, s.top_index, bottom_index(s))
  THEN [panicked |-> TRUE, rows |-> <<>>]
  ELSE [panicked |-> FALSE, rows |-> SubSeq(s.visible_items, s.top_index + 1, bottom_index(s))]

selection_index(s) ==
  IF IsSome(s.selected) THEN Some(At(s.visible_items, Unwrap(s.selected)).line_number) ELSE None

\* selection_index indexes visible_items with the selected index
selection_index_ok(s) == IsSome(s.selected) => InRange(s.visible_items, Unwrap(s.selected))

\* only the accesses are modelled: selection_index(), and the slice
\* visible_items[top_index..bottom] (taken when a row is selected)
recalculate_selection_level(s) ==
  IF s.panicked THEN s
  ELSE IF ~selection_index_ok(s) THEN Panic(s)
  ELSE IF IsSome(s.selected) /\ ~SliceOk(s.visible_items, s.top_index, bottom_index(s)) THEN Panic(s)
  ELSE s

recalculate_scroll_position(s) ==
  IF s.panicked \/ ~IsSome(s.selected) THEN s
  ELSE LET index == Unwrap(s.selected)
           s1 == IF index < s.top_index THEN [s EXCEPT !.top_index = index] ELSE s
           new_top_index == index - s1.list_height + 2
       IN IF index >= bottom_index(s1)
          THEN [s1 EXCEPT !.top_index = IF new_top_index < 0 THEN 0 ELSE new_top_index]
          ELSE s1

select_index(s, index) ==
  IF s.panicked THEN s
  ELSE recalculate_selection_level(recalculate_scroll_position([s EXCEPT !.selected = Some(index)]))

select_next(s, step) ==
  IF s.panicked THEN s
  ELSE select_index(s, IF IsSome(s.selected)
                       THEN Min(Unwrap(s.selected) + step, Len(s.visible_items) - 1)
                       ELSE 0)

select_previous(s, step) ==
  IF s.panicked THEN s
  ELSE select_index(s, IF IsSome(s.selected) /\ Unwrap(s.selected) > step
                       THEN Unwrap(s.selected) - step
                       ELSE 0)

\* sibling_indent comparing the row's own indent for every kind of row
sibling_indent_own(item) == item.indent

\* the indent compared by select_next_object / select_previous_object; for a
\* scalar it is indent - 1 in usize: at indent 0 the subtraction panics under
\* overflow checks and wraps to usize::MAX (written -1: no row has it) without
sibling_indent(item) == IF IsContainer(item.value.type) THEN item.indent ELSE item.indent - 1

select_next_object(s, overflow_checks) ==
  IF s.panicked THEN s
  ELSE IF ~IsSome(s.selected) THEN select_index(s, 0)
  ELSE IF ~InRange(s.visible_items, Unwrap(s.selected)) THEN Panic(s)
  ELSE LET selection_index_ == Unwrap(s.selected)
           indent == sibling_indent(At(s.visible_items, selection_index_))
           found == {index \in 0..(Len(s.visible_items) - 1) :
                       index > selection_index_ /\ At(s.visible_items, index).indent = indent}
       IN IF indent < 0 /\ overflow_checks THEN Panic(s)
          ELSE IF found = {} THEN select_index(s, selection_index_)
          ELSE select_index(s, CHOOSE index \in found : \A other \in found : index <= other)

select_previous_object(s, overflow_checks) ==
  IF s.panicked THEN s
  ELSE IF ~IsSome(s.selected) THEN select_index(s, 0)
  ELSE IF ~InRange(s.visible_items, Unwrap(s.selected)) THEN Panic(s)
  ELSE LET selection_index_ == Unwrap(s.selected)
           indent == sibling_indent(At(s.visible_items, selection_index_))
           found == {index \in 0..(Len(s.visible_items) - 1) :
                       index < selection_index_ /\ At(s.visible_items, index).indent = indent}
       IN IF indent < 0 /\ overflow_checks THEN Panic(s)
          ELSE IF found = {} THEN select_index(s, selection_index_)
          ELSE select_index(s, CHOOSE index \in found : \A other \in found : index >= other)

select_top(s) == select_index(s, 0)

select_bottom(s) == select_index(s, Len(s.visible_items) - 1)

select_top_of_screen(s) == select_index(s, s.top_index)

\* `as u16`: the value is truncated to 16 bits
as_u16(n) == n % 65536

\* u16 addition and subtraction without overflow checks
wrapping_add(a, b) == (a + b) % 65536

wrapping_sub(a, b) == (a - b + 65536) % 65536

\* min(top + num_items - 1, top + list_height - 2), every operand a u16, as
\* it is without overflow checks
screen_bottom(s) ==
  LET top == as_u16(s.top_index)
      num_items == as_u16(Len(s.visible_items))
  IN Min(wrapping_sub(wrapping_add(top, num_items), 1), wrapping_sub(wrapping_add(top, s.list_height), 2))

\* one of the sums or differences of that expression leaves the u16 range,
\* which panics under overflow checks
screen_bottom_overflows(s) ==
  LET top == as_u16(s.top_index)
      num_items == as_u16(Len(s.visible_items))
  IN \/ top + num_items > 65535
     \/ top + num_items < 1
     \/ top + s.list_height > 65535
     \/ top + s.list_height < 2

\* (top + bottom) / 2 in u16, as it is without overflow checks
screen_middle(s) == wrapping_add(as_u16(s.top_index), screen_bottom(s)) \div 2

\* top + bottom leaves the u16 range
screen_middle_overflows(s) == as_u16(s.top_index) + screen_bottom(s) > 65535

select_middle_of_screen(s, overflow_checks) ==
  IF s.panicked THEN s
  ELSE IF overflow_checks /\ (screen_bottom_overflows(s) \/ screen_middle_overflows(s)) THEN Panic(s)
  ELSE select_index(s, screen_middle(s))

select_bottom_of_screen(s, overflow_checks) ==
  IF s.panicked THEN s
  ELSE IF overflow_checks /\ screen_bottom_overflows(s) THEN Panic(s)
  ELSE select_index(s, screen_bottom(s))

\* ------------------------------------------------------- collapse / expand
RECURSIVE visible_pass_shows_end(_, _, _, _)
\* visible_pass that leaves the closing bracket of a collapsed container visible
visible_pass_shows_end(items, k, is_in_collapsed, collapse_indent) ==
  IF k > Len(items) THEN items
  ELSE LET item == items[k]
       IN IF is_in_collapsed
          THEN IF item.indent = collapse_indent
               THEN visible_pass_shows_end([items EXCEPT ![k].visible = TRUE], k + 1, FALSE, collapse_indent)
               ELSE visible_pass_shows_end([items EXCEPT ![k].visible = FALSE], k + 1, TRUE, collapse_indent)
          ELSE IF item.collapsed
               THEN visible_pass_shows_end([items EXCEPT ![k].visible = TRUE], k + 1, TRUE, item.indent)
               ELSE visible_pass_shows_end([items EXCEPT ![k].visible = TRUE], k + 1, FALSE, collapse_indent)

RECURSIVE visible_pass(_, _, _, _)
\* the loop of recalculate_visible from row k on (1-based position in items)
visible_pass(items, k, is_in_collapsed, collapse_indent) ==
  IF k > Len(items) THEN items
  ELSE LET item == items[k]
       IN IF is_in_collapsed
          THEN IF item.indent = collapse_indent
               THEN visible_pass([items EXCEPT ![k].visible = FALSE], k + 1, FALSE, collapse_indent)
               ELSE visible_pass([items EXCEPT ![k].visible = FALSE], k + 1, TRUE, collapse_indent)
          ELSE IF item.collapsed
               THEN visible_pass([items EXCEPT ![k].visible = TRUE], k + 1, TRUE, item.indent)
               ELSE visible_pass([items EXCEPT ![k].visible = TRUE], k + 1, FALSE, collapse_indent)

\* recalculate_visible that drops the hidden rows from items as well
recalculate_visible_retain(s) ==
  IF s.panicked THEN s
  ELSE LET items == SelectSeq(visible_pass(s.items, 1, FALSE, 0), LAMBDA i : i.visible)
       IN [s EXCEPT !.items = items, !.visible_items = items]

\* recalculate_visible that leaves visible_items as it was
recalculate_visible_stale(s) ==
  IF s.panicked THEN s
  ELSE [s EXCEPT !.items = visible_pass(s.items, 1, FALSE, 0)]

recalculate_visible(s) ==
  IF s.panicked THEN s
  ELSE LET items == visible_pass(s.items, 1, FALSE, 0)
       IN [s EXCEPT !.items = items, !.visible_items = SelectSeq(items, LAMBDA i : i.visible)]

\* the row toggle_collapsed flips: the nearest Array/Object row at or before
\* index, scanning items backwards; None when the scan reaches row 0 without one
toggle_target(items, index) ==
  LET opens == {i \in 0..index : IsOpen(At(items, i).value.type)}
  IN IF opens = {} THEN None ELSE Some(CHOOSE i \in opens : \A other \in opens : i >= other)

\* toggle_collapsed that does nothing unless the selected row is an Array or Object
toggle_collapsed_on_container(s) ==
  IF s.panicked THEN s
  ELSE IF ~selection_index_ok(s) THEN Panic(s)
  ELSE IF ~IsSome(selection_index(s)) THEN s
  ELSE LET index == Unwrap(selection_index(s))
       IN IF ~IsOpen(At(s.items, index).value.type) THEN s
          ELSE recalculate_selection_level(recalculate_visible(
                 select_index([s EXCEPT !.items[index + 1].collapsed = ~s.items[index + 1].collapsed], Unwrap(s.selected))))

\* selection - diff is a usize subtraction: below zero it panics under overflow
\* checks, and otherwise wraps to an index that selection_index() rejects
toggle_collapsed(s) ==
  IF s.panicked THEN s
  ELSE IF ~selection_index_ok(s) THEN Panic(s)
  ELSE IF ~IsSome(selection_index(s)) THEN s
  ELSE LET index == Unwrap(selection_index(s))
           target == toggle_target(s.items, index)
       IN IF ~IsSome(target) THEN s
          ELSE LET i == Unwrap(target)
                   flipped == [s EXCEPT !.items[i + 1].collapsed = ~s.items[i + 1].collapsed]
                   diff == index - i
                   selection == Unwrap(s.selected)
               IN IF selection < diff THEN Panic(s)
                  ELSE recalculate_selection_level(recalculate_visible(select_index(flipped, selection - diff)))

\* visible_items.iter().position(line_number == ..).unwrap_or(0)
position_of(visible_items, line_number) ==
  LET found == {p \in 0..(Len(visible_items) - 1) : At(visible_items, p).line_number = line_number}
  IN IF found = {} THEN 0 ELSE CHOOSE p \in found : \A other \in found : p <= other

collapse_level(s) ==
  IF s.panicked THEN s
  ELSE IF ~selection_index_ok(s) THEN Panic(s)
  ELSE IF ~IsSome(selection_index(s)) THEN s
  ELSE LET index == Unwrap(selection_index(s))
           indent == At(s.items, index).indent
           line_number == At(s.items, index).line_number
           collapsed == [s EXCEPT !.items = [k \in 1..Len(s.items) |->
                           IF s.items[k].indent = indent /\ IsOpen(s.items[k].value.type)
                           THEN [s.items[k] EXCEPT !.collapsed = TRUE]
                           ELSE s.items[k]]]
           recalculated == recalculate_visible(collapsed)
       IN IF IsOpen(At(s.items, index).value.type)
          THEN select_index(recalculated, position_of(recalculated.visible_items, line_number))
          ELSE s

uncollapse_all(s) ==
  IF s.panicked THEN s
  ELSE LET selected == IF IsSome(s.selected) THEN Unwrap(s.selected) ELSE 0
       IN IF ~InRange(s.visible_items, selected) THEN Panic(s)
          ELSE LET line_number == At(s.visible_items, selected).line_number
                   cleared == [s EXCEPT !.items = [k \in 1..Len(s.items) |-> [s.items[k] EXCEPT !.collapsed = FALSE]]]
                   recalculated == recalculate_visible(cleared)
               IN select_index(recalculated, position_of(recalculated.visible_items, line_number))

\* ------------------------------------------------------------------ search
\* the capital sharp s and the capital letters of Basic Latin, Latin-1
\* Supplement and Greek (U+0380 to U+03FF) that str::to_lowercase changes into a letter of these
\* blocks (Lowercase_Mapping), the capital sigma apart, and below what each
\* one becomes; the small letters U+037B, U+037C and U+037D, which the last
\* three capitals become, are written by their code points
UpperCase ==
  <<"A", "B", "C", "D", "E", "F", "G", "H", "I", "J", "K", "L", "M", "N", "O", "P",
    "Q", "R", "S", "T", "U", "V", "W", "X", "Y", "Z", "À", "Á", "Â", "Ã", "Ä", "Å",
    "Æ", "Ç", "È", "É", "Ê", "Ë", "Ì", "Í", "Î", "Ï", "Ð", "Ñ", "Ò", "Ó", "Ô", "Õ",
    "Ö", "Ø", "Ù", "Ú", "Û", "Ü", "Ý", "Þ", "Ά", "Έ", "Ή", "Ί", "Ό", "Ύ", "Ώ", "Α",
    "Β", "Γ", "Δ", "Ε", "Ζ", "Η", "Θ", "Ι", "Κ", "Λ", "Μ", "Ν", "Ξ", "Ο", "Π", "Ρ",
    "Τ", "Υ", "Φ", "Χ", "Ψ", "Ω", "Ϊ", "Ϋ", "Ϗ", "Ϙ", "Ϛ", "Ϝ", "Ϟ", "Ϡ", "Ϣ", "Ϥ",
    "Ϧ", "Ϩ", "Ϫ", "Ϭ", "Ϯ", "ϴ", "Ϸ", "Ϲ", "Ϻ", "Ͻ", "Ͼ", "Ͽ",
    "ẞ">>

LowerCase ==
  <<"a", "b", "c", "d", "e", "f", "g", "h", "i", "j", "k", "l", "m", "n", "o", "p",
    "q", "r", "s", "t", "u", "v", "w", "x", "y", "z", "à", "á", "â", "ã", "ä", "å",
    "æ", "ç", "è", "é", "ê", "ë", "ì", "í", "î", "ï", "ð", "ñ", "ò", "ó", "ô", "õ",
    "ö", "ø", "ù", "ú", "û", "ü", "ý", "þ", "ά", "έ", "ή", "ί", "ό", "ύ", "ώ", "α",
    "β", "γ", "δ", "ε", "ζ", "η", "θ", "ι", "κ", "λ", "μ", "ν", "ξ", "ο", "π", "ρ",
    "τ", "υ", "φ", "χ", "ψ", "ω", "ϊ", "ϋ", "ϗ", "ϙ", "ϛ", "ϝ", "ϟ", "ϡ", "ϣ", "ϥ",
    "ϧ", "ϩ", "ϫ", "ϭ", "ϯ", "θ", "ϸ", "ϲ", "ϻ", "U+037B", "U+037C", "U+037D",
    "ß">>

\* core::unicode::Cased among the characters of these blocks, less the ones
\* that are Case_Ignorable as well
Cased ==
  {"A", "B", "C", "D", "E", "F", "G", "H", "I", "J", "K", "L", "M", "N", "O", "P",
   "Q", "R", "S", "T", "U", "V", "W", "X", "Y", "Z", "a", "b", "c", "d", "e", "f",
   "g", "h", "i", "j", "k", "l", "m", "n", "o", "p", "q", "r", "s", "t", "u", "v",
   "w", "x", "y", "z", "ª", "µ", "º", "À", "Á", "Â", "Ã", "Ä", "Å", "Æ", "Ç", "È",
   "É", "Ê", "Ë", "Ì", "Í", "Î", "Ï", "Ð", "Ñ", "Ò", "Ó", "Ô", "Õ", "Ö", "Ø", "Ù",
   "Ú", "Û", "Ü", "Ý", "Þ", "ß", "à", "á", "â", "ã", "ä", "å", "æ", "ç", "è", "é",
   "ê", "ë", "ì", "í", "î", "ï", "ð", "ñ", "ò", "ó", "ô", "õ", "ö", "ø", "ù", "ú",
   "û", "ü", "ý", "þ", "ÿ", "Ά", "Έ", "Ή", "Ί", "Ό", "Ύ", "Ώ", "ΐ", "Α", "Β", "Γ",
   "Δ", "Ε", "Ζ", "Η", "Θ", "Ι", "Κ", "Λ", "Μ", "Ν", "Ξ", "Ο", "Π", "Ρ", "Σ", "Τ",
   "Υ", "Φ", "Χ", "Ψ", "Ω", "Ϊ", "Ϋ", "ά", "έ", "ή", "ί", "ΰ", "α", "β", "γ", "δ",
   "ε", "ζ", "η", "θ", "ι", "κ", "λ", "μ", "ν", "ξ", "ο", "π", "ρ", "ς", "σ", "τ",
   "υ", "φ", "χ", "ψ", "ω", "ϊ", "ϋ", "ό", "ύ", "ώ", "Ϗ", "ϐ", "ϑ", "ϒ", "ϓ", "ϔ",
   "ϕ", "ϖ", "ϗ", "Ϙ", "ϙ", "Ϛ", "ϛ", "Ϝ", "ϝ", "Ϟ", "ϟ", "Ϡ", "ϡ", "Ϣ", "ϣ", "Ϥ",
   "ϥ", "Ϧ", "ϧ", "Ϩ", "ϩ", "Ϫ", "ϫ", "Ϭ", "ϭ", "Ϯ", "ϯ", "ϰ", "ϱ", "ϲ", "ϳ", "ϴ",
   "ϵ", "Ϸ", "ϸ", "Ϲ", "Ϻ", "ϻ", "ϼ", "Ͻ", "Ͼ", "Ͽ", "ẞ",
   "U+037B", "U+037C", "U+037D"}

\* core::unicode::Case_Ignorable among them
Case_Ignorable ==
  {"'", ".", ":", "^", "¨", "­", "¯", "´", "·", "¸", "΄", "΅", "·"}

\* the first character that is not Case_Ignorable is a Cased one
case_ignorable_then_cased(chars) ==
  LET rest == {k \in 1..Len(chars) : chars[k] \notin Case_Ignorable}
  IN rest # {} /\ chars[CHOOSE k \in rest : \A other \in rest : k <= other] \in Cased

\* chars().rev()
rev(chars) == [k \in 1..Len(chars) |-> chars[Len(chars) + 1 - k]]

\* the capital sigma at position i becomes the final sigma when a cased letter
\* comes before it and none after it
map_uppercase_sigma(from, i) ==
  LET is_word_final == /\ case_ignorable_then_cased(rev(SubSeq(from, 1, i - 1)))
                       /\ ~case_ignorable_then_cased(SubSeq(from, i + 1, Len(from)))
  IN IF is_word_final THEN "ς" ELSE "σ"

\* str::to_lowercase
to_lowercase(str) ==
  [k \in 1..Len(str) |->
     IF str[k] = "Σ" THEN map_uppercase_sigma(str, k)
     ELSE IF \E u \in 1..Len(UpperCase) : UpperCase[u] = str[k]
     THEN LowerCase[CHOOSE u \in 1..Len(UpperCase) : UpperCase[u] = str[k]]
     ELSE str[k]]

\* str::contains
contains(str, pat) ==
  \E start \in 1..(Len(str) - Len(pat) + 1) : SubSeq(str, start, start + Len(pat) - 1) = pat

\* update_is_search_result without the test for an empty search string
update_is_search_result_unguarded(item, search_string, is_searching) ==
  LET is_result(str) == contains(to_lowercase(str), to_lowercase(search_string))
  IN IF ~is_searching
     THEN [item EXCEPT !.value_is_search_result = FALSE, !.name_is_search_result = FALSE]
     ELSE [item EXCEPT !.name_is_search_result = is_result(IF IsSome(item.name) THEN Unwrap(item.name) ELSE <<>>),
                       !.value_is_search_result = IF item.value.type \in {"Number", "String", "Bool"}
                                                  THEN is_result(item.value.text)
                                                  ELSE FALSE]

\* JsonItem::update_is_search_result
update_is_search_result(item, search_string, is_searching) ==
  LET is_result(str) == contains(to_lowercase(str), to_lowercase(search_string))
  IN IF search_string = <<>> \/ ~is_searching
     THEN [item EXCEPT !.value_is_search_result = FALSE, !.name_is_search_result = FALSE]
     ELSE [item EXCEPT !.name_is_search_result = is_result(IF IsSome(item.name) THEN Unwrap(item.name) ELSE <<>>),
                       !.value_is_search_result = IF item.value.type \in {"Number", "String", "Bool"}
                                                  THEN is_result(item.value.text)
                                                  ELSE FALSE]

\* the indices into visible_items of the flagged rows, in increasing order
search_results(s) ==
  LET flagged == {index \in 0..(Len(s.visible_items) - 1) :
                    At(s.visible_items, index).name_is_search_result \/ At(s.visible_items, index).value_is_search_result}
      nth[k \in 1..Cardinality(flagged)] ==
        CHOOSE index \in flagged : Cardinality({other \in flagged : other < index}) = k - 1
  IN nth

\* update_search_results that leaves the selection where it is
update_search_results_unselected(s) ==
  IF s.panicked THEN s
  ELSE [s EXCEPT !.visible_items = [k \in 1..Len(s.visible_items) |->
          update_is_search_result(s.visible_items[k], s.search_input, s.search_state # "NotSearching")]]

update_search_results(s) ==
  IF s.panicked THEN s
  ELSE LET updated == [s EXCEPT !.visible_items = [k \in 1..Len(s.visible_items) |->
                         update_is_search_result(s.visible_items[k], s.search_input, s.search_state # "NotSearching")]]
       IN IF s.search_state = "Searching" /\ search_results(updated) # <<>>
          THEN select_index(updated, search_results(updated)[1])
          ELSE updated

\* start_searching that leaves the collapsed containers as they are
start_searching_keeps_collapsed(s) ==
  IF s.panicked THEN s
  ELSE update_search_results([s EXCEPT !.search_state = "Searching", !.search_index = 0, !.search_input = <<>>])

start_searching(s) ==
  IF s.panicked THEN s
  ELSE LET uncollapsed == uncollapse_all(s)
       IN IF uncollapsed.panicked THEN uncollapsed
          ELSE update_search_results([uncollapsed EXCEPT !.search_state = "Searching", !.search_index = 0, !.search_input = <<>>])

\* cancel_searching that leaves the flags as they are
cancel_searching_keeps_flags(s) ==
  IF s.panicked THEN s
  ELSE [s EXCEPT !.search_state = "NotSearching", !.search_index = 0]

cancel_searching(s) ==
  IF s.panicked THEN s
  ELSE update_search_results([s EXCEPT !.search_state = "NotSearching", !.search_index = 0])

finish_searching_always_browses(s) ==
  IF s.panicked THEN s
  ELSE LET updated == update_search_results(s)
       IN IF updated.panicked THEN updated
          ELSE [updated EXCEPT !.search_state = "BrowsingSearch", !.search_index = 0]

finish_searching(s) ==
  IF s.panicked THEN s
  ELSE LET updated == update_search_results(s)
       IN IF updated.panicked THEN updated
          ELSE IF search_results(updated) # <<>>
               THEN [updated EXCEPT !.search_state = "BrowsingSearch", !.search_index = 0]
               ELSE [updated EXCEPT !.search_state = "NotSearching", !.search_index = 0]

\* visible_items is indexed with selection_index(), a row id: out of range
\* it panics; the name is set as the search text, which start_searching
\* replaces by the empty text
start_searching_for_name(s) ==
  IF s.panicked THEN s
  ELSE IF ~selection_index_ok(s) THEN Panic(s)
  ELSE IF ~IsSome(selection_index(s)) THEN s
  ELSE LET index == Unwrap(selection_index(s))
       IN IF ~InRange(s.visible_items, index) THEN Panic(s)
          ELSE LET name == At(s.visible_items, index).name
               IN IF ~IsSome(name) THEN s
                  ELSE finish_searching(start_searching([s EXCEPT !.search_input = Unwrap(name)]))

\* tui_input's handle_event with the cursor at the end of the text: a
\* character key appends, Backspace removes the last character
handle_event(search_input, event) ==
  IF event = "Backspace"
  THEN IF search_input = <<>> THEN search_input ELSE SubSeq(search_input, 1, Len(search_input) - 1)
  ELSE Append(search_input, event)

update_search(s, event) ==
  IF s.panicked THEN s
  ELSE LET is_large_file == s.num_items_in_file > LargeFileThreshold
           edited == [s EXCEPT !.search_input = handle_event(s.search_input, event)]
       IN IF ~is_large_file THEN update_search_results(edited) ELSE edited

\* index % 0 and search_results[..] on an empty vector panic
next_search_result(s) ==
  IF s.panicked \/ s.search_state # "BrowsingSearch" THEN s
  ELSE LET results == search_results(s)
       IN IF results = <<>> THEN Panic(s)
          ELSE LET new_index == (s.search_index + 1) % Len(results)
               IN [select_index(s, At(results, new_index)) EXCEPT !.search_index = new_index]

previous_search_result(s) ==
  IF s.panicked \/ s.search_state # "BrowsingSearch" THEN s
  ELSE LET results == search_results(s)
           new_index == IF s.search_index = 0 THEN Len(results) - 1 ELSE s.search_index - 1
       IN IF results = <<>> \/ ~InRange(results, new_index) THEN Panic(s)
          ELSE [select_index(s, At(results, new_index)) EXCEPT !.search_index = new_index]

\* --------------------------------------------------------------- search.rs
\* the position of the first / last occurrence of the one-character pattern
\* in str, 0 when there is none
find(str, pat) ==
  LET found == {k \in 1..Len(str) : str[k] = pat}
  IN IF found = {} THEN 0 ELSE CHOOSE k \in found : \A other \in found : k <= other

rfind(str, pat) ==
  LET found == {k \in 1..Len(str) : str[k] = pat}
  IN IF found = {} THEN 0 ELSE CHOOSE k \in found : \A other \in found : k >= other

\* str.split("=") as the sequence of its components
RECURSIVE split(_, _)
split(str, pat) ==
  IF find(str, pat) = 0 THEN <<str>>
  ELSE <<SubSeq(str, 1, find(str, pat) - 1)>> \o split(SubSeq(str, find(str, pat) + 1, Len(str)), pat)

\* Iterator::next on the components, k calls in (k = 0 is the first call)
next(components, k) == IF k < Len(components) THEN Some(At(components, k)) ELSE None

\* str.rsplit_once("."), the pattern being present
rsplit_once(str, pat) ==
  <<SubSeq(str, 1, rfind(str, pat) - 1), SubSeq(str, rfind(str, pat) + 1, Len(str))>>

unwrap_or(option, default) == IF IsSome(option) THEN Unwrap(option) ELSE default

search_in_name(name, breadcrumbs, name_parts) ==
  IF ~IsSome(name) THEN FALSE
  ELSE IF name_parts[1] = <<>>
       THEN contains(to_lowercase(Unwrap(name)), to_lowercase(name_parts[2])) /\ name_parts[2] # <<>>
       ELSE /\ contains(to_lowercase(Unwrap(name)), to_lowercase(name_parts[2]))
            /\ contains(breadcrumbs, to_lowercase(name_parts[1]))

\* search_in_value whose "*" matches every row
search_in_value_star_any(value, search_str) ==
  IF search_str = None THEN FALSE
  ELSE IF search_str = Some(<<>>) THEN FALSE
  ELSE IF search_str = Some(<<"*">>) THEN TRUE
  ELSE contains(to_lowercase(value), to_lowercase(Unwrap(search_str))) /\ value # <<>>

\* search_in_value without the arm for an empty search text
search_in_value_unguarded(value, search_str) ==
  IF search_str = None THEN FALSE
  ELSE IF search_str = Some(<<"*">>) THEN value # <<>>
  ELSE contains(to_lowercase(value), to_lowercase(Unwrap(search_str))) /\ value # <<>>

search_in_value(value, search_str) ==
  IF search_str = None THEN FALSE
  ELSE IF search_str = Some(<<>>) THEN FALSE
  ELSE IF search_str = Some(<<"*">>) THEN value # <<>>
  ELSE contains(to_lowercase(value), to_lowercase(Unwrap(search_str))) /\ value # <<>>

not_empty(s) == IF s = None THEN FALSE ELSE Unwrap(s) # <<>>

\* JsonItem::value_str, the text search.rs matches values against: the string
\* form of a scalar value, empty for the container rows
value_str(item) == item.value.text

\* search::update_search_results that leaves the two flags as the parts set them
search_update_search_results_apart(json_items, search_string) ==
  LET search_components == split(search_string, "=")
      name_search_str == next(search_components, 0)
      value_search_str == next(search_components, 1)
      name_parts == IF contains(unwrap_or(name_search_str, <<>>), <<".">>)
                    THEN rsplit_once(Unwrap(name_search_str), ".")
                    ELSE <<<<>>, unwrap_or(name_search_str, <<>>)>>
  IN [k \in 1..Len(json_items) |->
        [json_items[k] EXCEPT !.name_is_search_result = search_in_name(json_items[k].name, json_items[k].breadcrumbs, name_parts),
                              !.value_is_search_result = search_in_value(value_str(json_items[k]), value_search_str)]]

\* search::update_search_results over json_items
search_update_search_results(json_items, search_string) ==
  LET search_components == split(search_string, "=")
      name_search_str == next(search_components, 0)
      value_search_str == next(search_components, 1)
      name_parts == IF contains(unwrap_or(name_search_str, <<>>), <<".">>)
                    THEN rsplit_once(Unwrap(name_search_str), ".")
                    ELSE <<<<>>, unwrap_or(name_search_str, <<>>)>>
      searched(item) ==
        LET in_name == search_in_name(item.name, item.breadcrumbs, name_parts)
            in_value == search_in_value(value_str(item), value_search_str)
        IN IF not_empty(name_search_str) /\ not_empty(value_search_str) /\ ~(in_name /\ in_value)
           THEN [item EXCEPT !.name_is_search_result = FALSE, !.value_is_search_result = FALSE]
           ELSE [item EXCEPT !.name_is_search_result = in_name, !.value_is_search_result = in_value]
  IN [k \in 1..Len(json_items) |-> searched(json_items[k])]

\* ------------------------------------------------------------------- state
\* running: run_app's loop has not returned (q ends it)
VARIABLES items, visible_items, selected, top_index, list_height, search_state, search_index, search_input, num_items_in_file, panicked, running

vars == <<items, visible_items, selected, top_index, list_height, search_state, search_index, search_input, num_items_in_file, panicked, running>>

\* the AppState as one value; search_state BrowsingSearch(Some(i)) is the pair
\* search_state = "BrowsingSearch", search_index = i (search_index is 0 otherwise)
State ==
  [items |-> items, visible_items |-> visible_items, selected |-> selected, top_index |-> top_index,
   list_height |-> list_height, search_state |-> search_state, search_index |-> search_index,
   search_input |-> search_input, num_items_in_file |-> num_items_in_file, panicked |-> panicked]

\* AppState::new
AppState_new(json_items) ==
  LET values == SelectSeq(json_items, LAMBDA i : ~IsEnd(i.value.type))
      app_state == [items |-> json_items, visible_items |-> json_items, selected |-> None, top_index |-> 0,
                    list_height |-> 0, search_state |-> "NotSearching", search_index |-> 0,
                    search_input |-> <<>>, num_items_in_file |-> Len(values), panicked |-> FALSE]
  IN select_next(app_state, 1)

\* main: parse the document, build the AppState
Init ==
  \E document \in Documents :
    LET app_state == AppState_new(parse_json_string(document))
    IN /\ items = app_state.items
       /\ visible_items = app_state.visible_items
       /\ selected = app_state.selected
       /\ top_index = app_state.top_index
       /\ list_height = app_state.list_height
       /\ search_state = app_state.search_state
       /\ search_index = app_state.search_index
       /\ search_input = app_state.search_input
       /\ num_items_in_file = app_state.num_items_in_file
       /\ panicked = app_state.panicked
       /\ running = TRUE

\* render: the height of the list chunk is stored in the AppState, then
\* breadbrumbs_text() and status_text() call selection_index(), which indexes
\* visible_items with the selected index; the list widget is drawn from
\* visible_items and leaves the selected index alone while it is in range
render(s, height) ==
  IF s.panicked THEN s
  ELSE LET stored == [s EXCEPT !.list_height = height]
       IN IF ~selection_index_ok(stored) THEN Panic(stored) ELSE stored

\* the state after a handler; a panic ends the run in the state it started from
Becomes(s) ==
  IF s.panicked
  THEN panicked' = TRUE /\ UNCHANGED <<items, visible_items, selected, top_index, list_height, search_state, search_index, search_input, num_items_in_file, running>>
  ELSE /\ items' = s.items
       /\ visible_items' = s.visible_items
       /\ selected' = s.selected
       /\ top_index' = s.top_index
       /\ list_height' = s.list_height
       /\ search_state' = s.search_state
       /\ search_index' = s.search_index
       /\ search_input' = s.search_input
       /\ num_items_in_file' = s.num_items_in_file
       /\ panicked' = FALSE
       /\ running' = running

\* the keys a search text is typed with
QueryChars == {"a"}

\* terminal.draw at the top of run_app's loop: every frame stores the list
\* height, another one after the terminal was resized
Draw == ~panicked /\ running /\ \E h \in ListHeights : Becomes(render(State, h))

\* a frame has been drawn: the list height is one the renderer stores (0, the
\* height AppState::new starts with, is the one of a frame without room)
Drawn == list_height \in ListHeights

\* run_app reads a key in the given search state, after the frame was drawn
Reading(state) == ~panicked /\ running /\ Drawn /\ search_state = state

KeyLineDown == Reading("NotSearching") /\ Becomes(select_next(State, 1))

KeySiblingDown == Reading("NotSearching") /\ \E overflow_checks \in BOOLEAN : Becomes(select_next_object(State, overflow_checks))

KeyLineUp == Reading("NotSearching") /\ Becomes(select_previous(State, 1))

KeySiblingUp == Reading("NotSearching") /\ \E overflow_checks \in BOOLEAN : Becomes(select_previous_object(State, overflow_checks))

KeyToggleCollapse == Reading("NotSearching") /\ Becomes(toggle_collapsed(State))

KeyCollapseLevel == Reading("NotSearching") /\ Becomes(collapse_level(State))

KeyUncollapseAll == Reading("NotSearching") /\ Becomes(uncollapse_all(State))

KeyTop == Reading("NotSearching") /\ Becomes(select_top(State))

KeyBottom == Reading("NotSearching") /\ Becomes(select_bottom(State))

KeyScreenTop == Reading("NotSearching") /\ Becomes(select_top_of_screen(State))

KeyScreenMiddle == Reading("NotSearching") /\ \E overflow_checks \in BOOLEAN : Becomes(select_middle_of_screen(State, overflow_checks))

KeyScreenBottom == Reading("NotSearching") /\ \E overflow_checks \in BOOLEAN : Becomes(select_bottom_of_screen(State, overflow_checks))

\* Space: select_next(size.height - 5) when the terminal is higher than 5 rows
KeyPageDown == Reading("NotSearching") /\ \E step \in 1..MaxStep : Becomes(select_next(State, step))

\* Backspace: select_previous(size.height - 5)
KeyPageUp == Reading("NotSearching") /\ \E step \in 1..MaxStep : Becomes(select_previous(State, step))

KeyStartSearch == (Reading("NotSearching") \/ Reading("BrowsingSearch")) /\ Becomes(start_searching(State))

KeySearchSubmit == Reading("Searching") /\ Becomes(finish_searching(State))

KeySearchCancel == (Reading("Searching") \/ Reading("BrowsingSearch")) /\ Becomes(cancel_searching(State))

KeySearchEdit ==
  /\ Reading("Searching")
  /\ \E event \in QueryChars \cup {"Backspace"} :
       /\ event \in QueryChars => Len(search_input) < MaxQueryLen
       /\ Becomes(update_search(State, event))

KeyNextMatch == Reading("BrowsingSearch") /\ Becomes(next_search_result(State))

KeyPreviousMatch == Reading("BrowsingSearch") /\ Becomes(previous_search_result(State))

\* AppState::start_searching_for_name, a public function that no key of
\* run_app is bound to: a call of it between two keys, in any search state
CallStartSearchingForName == ~panicked /\ running /\ Drawn /\ Becomes(start_searching_for_name(State))

\* q outside the search prompt: run_app returns
KeyQuit ==
  /\ Reading("NotSearching") \/ Reading("BrowsingSearch")
  /\ running' = FALSE
  /\ UNCHANGED <<items, visible_items, selected, top_index, list_height, search_state, search_index, search_input, num_items_in_file, panicked>>

Next ==
  \/ Draw
  \/ KeyLineDown
  \/ KeySiblingDown
  \/ KeyLineUp
  \/ KeySiblingUp
  \/ KeyToggleCollapse
  \/ KeyCollapseLevel
  \/ KeyUncollapseAll
  \/ KeyTop
  \/ KeyBottom
  \/ KeyScreenTop
  \/ KeyScreenMiddle
  \/ KeyScreenBottom
  \/ KeyPageDown
  \/ KeyPageUp
  \/ KeyStartSearch
  \/ KeySearchSubmit
  \/ KeySearchCancel
  \/ KeySearchEdit
  \/ KeyNextMatch
  \/ KeyPreviousMatch
  \/ KeyQuit
  \/ CallStartSearchingForName

Spec == Init /\ [][Next]_vars

\* ------------------------------------------------ search.rs on its own
\* the document {"a": {"id": 42}, "b": {"id": 7}}
IdMember(key, text) ==
  [key |-> Some(key),
   value |-> [kind |-> "Object", text |-> <<>>,
              children |-> <<[key |-> Some(<<"i", "d">>), value |-> Scalar("Number", text)]>>]]

IdDocument ==
  [kind |-> "Object", text |-> <<>>, children |-> <<IdMember(<<"a">>, <<"4", "2">>), IdMember(<<"b">>, <<"7">>)>>]

\* the document {"Ab": ""}: a scalar whose value text is empty
BlankDocument == AsObject(<<Scalar("String", <<>>)>>)

SearchDocuments == Documents \cup {IdDocument, BlankDocument}

\* the keys a query for search.rs is typed with, and whole queries entered at once
SearchChars == {"a", "b", "=", ".", "*"}

PastedQueries == {<<"i", "d", "=", "4", "2">>, <<"i", "d", "=", "*">>, <<"i", "d", "=">>, <<"i", "d">>}

SearchInit ==
  \E document \in SearchDocuments :
    LET app_state == AppState_new(parse_json_string(document))
    IN /\ items = app_state.items
       /\ visible_items = app_state.visible_items
       /\ selected = app_state.selected
       /\ top_index = app_state.top_index
       /\ list_height = app_state.list_height
       /\ search_state = app_state.search_state
       /\ search_index = app_state.search_index
       /\ search_input = app_state.search_input
       /\ num_items_in_file = app_state.num_items_in_file
       /\ panicked = app_state.panicked
       /\ running = TRUE

\* search::update_search_results run over items.iter_mut() with the query
Searched(query) ==
  /\ search_input' = query
  /\ items' = search_update_search_results(items, query)
  /\ UNCHANGED <<visible_items, selected, top_index, list_height, search_state, search_index, num_items_in_file, panicked, running>>

SearchType == \E char \in SearchChars : Len(search_input) < MaxSearchLen /\ Searched(Append(search_input, char))

SearchPaste == \E query \in PastedQueries : search_input = <<>> /\ Searched(query)

SearchNext == SearchType \/ SearchPaste

SearchSpec == SearchInit /\ [][SearchNext]_vars

\* ------------------------------------------------------------------ claims
\* the selected position in visible_items and the row id it designates
SelectedIndex == Unwrap(selected)

SelectedId == At(visible_items, SelectedIndex).line_number

SelectedRow == At(items, SelectedId)

IdOf(s) == At(s.visible_items, Unwrap(s.selected)).line_number

\* the first row after open row p whose depth is that of p: its ContainerEnd
MatchingEnd(rows, p) ==
  CHOOSE q \in (p + 1)..(Len(rows) - 1) :
    /\ At(rows, q).indent = At(rows, p).indent
    /\ \A k \in (p + 1)..(q - 1) : At(rows, k).indent # At(rows, p).indent

\* row k lies strictly inside the span of open row p or is its ContainerEnd
InSpan(rows, p, k) == p < k /\ k <= MatchingEnd(rows, p)

OpenRows(rows) == {p \in 0..(Len(rows) - 1) : IsOpen(At(rows, p).value.type)}

\* C1: the selection is an index into the visible sequence and designates a
\* row whose visible flag is true
C1_SelectionValid ==
  /\ IsSome(selected)
  /\ InRange(visible_items, SelectedIndex)
  /\ SelectedRow.visible

\* a container is collapsed ahead of the selection: position and id differ
C1_Witness ==
  /\ ~panicked
  /\ \E p \in OpenRows(items) : At(items, p).collapsed /\ p < SelectedId
  /\ SelectedIndex < SelectedId

\* C2: no command reaches a panic
C2_NoPanic == ~panicked

\* top_index <= selected < min(top_index + height - 1, visible_len)
ScrollInvariant ==
  /\ top_index <= SelectedIndex
  /\ SelectedIndex < Min(top_index + list_height - 1, Len(visible_items))

\* C3: every step that changes the selected position or the selected row
\* leaves the selection inside [top_index, bottom_index)
C3_ScrollInvariant == [][(selected' # selected \/ SelectedId' # SelectedId) => ScrollInvariant']_vars

\* C4: a row is invisible iff it is inside the span of (or is the end of) a
\* collapsed container, and visible_items holds the visible rows in id order
C4_VisibleIffOutsideCollapsed ==
  /\ \A k \in 0..(Len(items) - 1) :
       ~At(items, k).visible <=> \E p \in OpenRows(items) : At(items, p).collapsed /\ InSpan(items, p, k)
  /\ [k \in 1..Len(visible_items) |-> visible_items[k].line_number]
       = [k \in 1..Cardinality({r \in 1..Len(items) : items[r].visible}) |->
            SelectSeq(items, LAMBDA i : i.visible)[k].line_number]

\* a collapsed container hidden inside another collapsed container
C4_Witness ==
  /\ ~panicked
  /\ \E p \in OpenRows(items) : At(items, p).collapsed /\ ~At(items, p).visible

\* C5: with a ContainerOpen selected, toggle_collapsed twice restores every
\* collapsed flag, every visible flag and the selected row
C5_ToggleTwiceRestores ==
  (~panicked /\ Drawn /\ search_state = "NotSearching" /\ IsOpen(SelectedRow.value.type)) =>
    \A h \in ListHeights :
      LET once == toggle_collapsed(State)
          twice == toggle_collapsed(render(once, h))
      IN /\ ~once.panicked
         /\ At(once.items, SelectedId).collapsed # SelectedRow.collapsed
         /\ ~twice.panicked
         /\ \A k \in 1..Len(items) : twice.items[k].collapsed = items[k].collapsed /\ twice.items[k].visible = items[k].visible
         /\ Len(twice.items) = Len(items)
         /\ IdOf(twice) = SelectedId

\* the innermost container whose span holds row k (k is no ContainerOpen)
EnclosingOpen(rows, k) ==
  LET enclosing == {p \in OpenRows(rows) : InSpan(rows, p, k)}
  IN IF enclosing = {} THEN None ELSE Some(CHOOSE p \in enclosing : \A other \in enclosing : p >= other)

\* C6: toggle_collapsed invoked on a row inside a container, with every
\* container between that ancestor and the row already collapsed (or none
\* there), collapses the ancestor and selects it, without a panic
C6_ReanchorOnAncestor ==
  (/\ ~panicked
   /\ Drawn
   /\ search_state = "NotSearching"
   /\ ~IsOpen(SelectedRow.value.type)
   /\ IsSome(EnclosingOpen(items, SelectedId))
   /\ \A p \in OpenRows(items) :
        (Unwrap(EnclosingOpen(items, SelectedId)) < p /\ p < SelectedId /\ At(items, p).visible) => At(items, p).collapsed)
  => LET ancestor == Unwrap(EnclosingOpen(items, SelectedId))
         after == toggle_collapsed(State)
     IN /\ ~after.panicked
        /\ IdOf(after) = ancestor
        /\ At(after.items, ancestor).collapsed
        /\ At(after.items, ancestor).visible

\* C7: collapse_level on a selected container and uncollapse_all keep the
\* selected row id, and that row is visible afterwards
C7_SelectionStableById ==
  (~panicked /\ Drawn /\ search_state = "NotSearching") =>
    LET levelled == collapse_level(State)
        expanded == uncollapse_all(State)
    IN /\ IsOpen(SelectedRow.value.type) =>
            /\ ~levelled.panicked
            /\ IdOf(levelled) = SelectedId
            /\ At(levelled.items, SelectedId).visible
            /\ At(levelled.items, SelectedId).collapsed
       /\ ~expanded.panicked
       /\ IdOf(expanded) = SelectedId
       /\ At(expanded.items, SelectedId).visible

EndOf(type) == IF type = "Array" THEN "ArrayEnd" ELSE "ObjectEnd"

\* C8: every open row has one matching end of its kind at its depth with only
\* deeper rows between them, and every end row has such an open row
C8_WellNested ==
  /\ \A p \in 0..(Len(items) - 1) :
       IsOpen(At(items, p).value.type) =>
         \E q \in (p + 1)..(Len(items) - 1) :
           /\ At(items, q).value.type = EndOf(At(items, p).value.type)
           /\ At(items, q).indent = At(items, p).indent
           /\ \A k \in (p + 1)..(q - 1) : At(items, k).indent > At(items, p).indent
  /\ \A q \in 0..(Len(items) - 1) :
       IsEnd(At(items, q).value.type) =>
         \E p \in 0..(q - 1) :
           /\ IsOpen(At(items, p).value.type)
           /\ At(items, q).value.type = EndOf(At(items, p).value.type)
           /\ At(items, q).indent = At(items, p).indent
           /\ \A k \in (p + 1)..(q - 1) : At(items, k).indent > At(items, p).indent

\* an object nested in an array nested in a container
C8_Witness ==
  \E p \in 0..(Len(items) - 1), q \in 0..(Len(items) - 1) :
    /\ p < q
    /\ At(items, p).value.type = "Array" /\ At(items, p).indent = 1
    /\ At(items, q).value.type = "Object" /\ At(items, q).indent = 2

\* the fields of a row that are set when the document is flattened
Frozen(row) ==
  [line_number |-> row.line_number, name |-> row.name, indent |-> row.indent, value |-> row.value,
   len |-> row.len, breadcrumbs |-> row.breadcrumbs]

FrozenRows(rows) == [k \in 1..Len(rows) |-> Frozen(rows[k])]

\* C9: row ids are the positions 0..n-1, the row sequence keeps its length,
\* order and structural fields in every step, and each entry of visible_items
\* carries the structural fields of the row with its id
C9_RowsFrozen ==
  /\ [](\A k \in 1..Len(items) : items[k].line_number = k - 1)
  /\ [](\A k \in 1..Len(visible_items) : Frozen(visible_items[k]) = Frozen(At(items, visible_items[k].line_number)))
  /\ [][FrozenRows(items') = FrozenRows(items)]_vars

\* flags have changed: a row is hidden while the search input is not empty
C9_Witness ==
  /\ ~panicked
  /\ search_input # <<>>
  /\ \E k \in 1..Len(items) : ~items[k].visible

Max(a, b) == IF a >= b THEN a ELSE b

\* C10: select_next(step) selects min(i + step, len - 1), select_previous(step)
\* selects max(i - step, 0), and neither panics
C10_MoveRelativeClamps ==
  (~panicked /\ Drawn) =>
    \A step \in 0..(MaxStep + 1) :
      LET down == select_next(State, step)
          up == select_previous(State, step)
      IN /\ ~down.panicked
         /\ down.selected = Some(Min(SelectedIndex + step, Len(visible_items) - 1))
         /\ ~up.panicked
         /\ up.selected = Some(Max(SelectedIndex - step, 0))

\* the positions of visible_items after / before the selection at a depth
VisibleAfter(depth) ==
  {i \in 0..(Len(visible_items) - 1) : i > SelectedIndex /\ At(visible_items, i).indent = depth}

VisibleBefore(depth) ==
  {i \in 0..(Len(visible_items) - 1) : i < SelectedIndex /\ At(visible_items, i).indent = depth}

\* t is the member of found nearest to the selection, or the selection itself
\* when found is empty
NearestOr(found, t) ==
  IF found = {} THEN t = SelectedIndex
  ELSE t \in found /\ \A i \in found : (i - SelectedIndex) * (i - SelectedIndex) >= (t - SelectedIndex) * (t - SelectedIndex)

\* C11 as stated: select_next_object / select_previous_object select the
\* nearest visible row after / before the selection whose depth is the
\* selected row's own depth, for every kind of row, and leave the selection
\* alone when there is none (wherever the command returns)
C11_SiblingOwnDepth ==
  (~panicked /\ Drawn) =>
    \A overflow_checks \in BOOLEAN :
      LET own == At(visible_items, SelectedIndex).indent
          down == select_next_object(State, overflow_checks)
          up == select_previous_object(State, overflow_checks)
      IN /\ ~down.panicked => NearestOr(VisibleAfter(own), Unwrap(down.selected))
         /\ ~up.panicked => NearestOr(VisibleBefore(own), Unwrap(up.selected))

\* the list chunk has no room for the row at that position: with a list
\* height below 2 select_index scrolls top_index past bottom_index for every
\* position but 0, and the slice of the window panics
NoRoomFor(index) == list_height < 2 /\ index >= 1

\* the member of found nearest to the selection, the selection without one
NearestTo(found) == IF found = {} THEN SelectedIndex ELSE CHOOSE t \in found : NearestOr(found, t)

\* C11 amended: the depth compared is the row's own depth for ContainerOpen
\* and ContainerEnd rows and one less for scalar rows, so that from a scalar
\* inside a container the commands select the end / the open row of the
\* enclosing container; on a root scalar the command panics under overflow
\* checks and leaves the selection alone without; with a list height below 2
\* the command panics exactly when the row to select is not at position 0
C11_SiblingParentDepthForScalars ==
  (~panicked /\ Drawn) =>
    \A overflow_checks \in BOOLEAN :
      LET row == At(visible_items, SelectedIndex)
          scalar == row.value.type \notin {"Array", "ArrayEnd", "Object", "ObjectEnd"}
          depth == IF scalar THEN row.indent - 1 ELSE row.indent
          down == select_next_object(State, overflow_checks)
          up == select_previous_object(State, overflow_checks)
      IN IF scalar /\ row.indent = 0
         THEN IF overflow_checks THEN down.panicked /\ up.panicked
              ELSE /\ ~down.panicked /\ down.selected = selected
                   /\ ~up.panicked /\ up.selected = selected
         ELSE /\ down.panicked <=> NoRoomFor(NearestTo(VisibleAfter(depth)))
              /\ up.panicked <=> NoRoomFor(NearestTo(VisibleBefore(depth)))
              /\ ~down.panicked => NearestOr(VisibleAfter(depth), Unwrap(down.selected))
              /\ ~up.panicked => NearestOr(VisibleBefore(depth), Unwrap(up.selected))
              /\ (scalar /\ ~up.panicked) => IdOf(up) = Unwrap(EnclosingOpen(items, SelectedId))
              /\ (scalar /\ ~down.panicked) => IdOf(down) = MatchingEnd(items, Unwrap(EnclosingOpen(items, SelectedId)))

\* a scalar is selected that has a visible scalar sibling after it and a
\* visible sibling before it
C11_Witness ==
  /\ ~panicked /\ Drawn
  /\ ~IsContainer(SelectedRow.value.type)
  /\ VisibleAfter(SelectedRow.indent) # {}
  /\ VisibleBefore(SelectedRow.indent) # {}
  /\ \E i \in VisibleAfter(SelectedRow.indent) : ~IsContainer(At(visible_items, i).value.type)

\* C12: select_top_of_screen selects top_index, select_bottom_of_screen selects
\* bottom_index - 1 and select_middle_of_screen the midpoint of the two, each
\* inside [top_index, bottom_index), in every state a key is read in
C12_ScreenJumpsInWindow ==
  (~panicked /\ Drawn) =>
    \A overflow_checks \in BOOLEAN :
      LET first == top_index
          last == bottom_index(State) - 1
          top == select_top_of_screen(State)
          middle == select_middle_of_screen(State, overflow_checks)
          bottom == select_bottom_of_screen(State, overflow_checks)
      IN /\ first <= last
         /\ ~top.panicked /\ top.selected = Some(first)
         /\ ~bottom.panicked /\ bottom.selected = Some(last)
         /\ ~middle.panicked /\ middle.selected = Some((first + last) \div 2)

\* the query as search.rs reads it: the text before the first "=", and the
\* text between the first and the second "=" (None without a "=")
NamePart == IF find(search_input, "=") = 0 THEN search_input ELSE SubSeq(search_input, 1, find(search_input, "=") - 1)

ValuePart ==
  IF find(search_input, "=") = 0 THEN None
  ELSE LET rest == SubSeq(search_input, find(search_input, "=") + 1, Len(search_input))
       IN Some(IF find(rest, "=") = 0 THEN rest ELSE SubSeq(rest, 1, find(rest, "=") - 1))

\* the name-part as (scope, name)
ScopeAndName ==
  IF rfind(NamePart, ".") = 0 THEN <<<<>>, NamePart>>
  ELSE <<SubSeq(NamePart, 1, rfind(NamePart, ".") - 1), SubSeq(NamePart, rfind(NamePart, ".") + 1, Len(NamePart))>>

\* each part of the query matched against a row on its own
NameMatches(row) == search_in_name(row.name, row.breadcrumbs, ScopeAndName)

ValueMatches(row) == search_in_value(value_str(row), ValuePart)

\* C13: with both parts of the query non-empty a row has both flags set when
\* both parts match it and none otherwise; with one part non-empty the flag of
\* that part tells whether it matches and the flag of the other part is false
C13_SearchCombination ==
  \A k \in 1..Len(items) :
    LET row == items[k]
        name_given == NamePart # <<>>
        value_given == ValuePart # None /\ ValuePart # Some(<<>>)
    IN /\ (name_given /\ value_given) =>
            /\ row.name_is_search_result = (NameMatches(row) /\ ValueMatches(row))
            /\ row.value_is_search_result = (NameMatches(row) /\ ValueMatches(row))
       /\ (name_given /\ ~value_given) =>
            /\ row.name_is_search_result = NameMatches(row)
            /\ ~row.value_is_search_result
       /\ (~name_given /\ value_given) =>
            /\ row.value_is_search_result = ValueMatches(row)
            /\ ~row.name_is_search_result

\* a query with both parts, of which only the name-part matches some row
C13_Witness ==
  /\ NamePart # <<>> /\ ValuePart # None /\ ValuePart # Some(<<>>)
  /\ \E k \in 1..Len(items) :
       /\ NameMatches(items[k]) /\ ~ValueMatches(items[k])
       /\ ~items[k].name_is_search_result
  /\ \E k \in 1..Len(items) : items[k].name_is_search_result /\ items[k].value_is_search_result

\* the rows of {"a": {"id": 42}, "b": {"id": 7}} are loaded: the id rows are
\* rows 2 and 5
IdLoaded == FrozenRows(items) = FrozenRows(parse_json_string(IdDocument))

NameFlagged == {k \in 0..(Len(items) - 1) : At(items, k).name_is_search_result}

ValueFlagged == {k \in 0..(Len(items) - 1) : At(items, k).value_is_search_result}

\* C14 as stated: on that document "id=42" flags exactly the first id row,
\* "id=*" exactly both id rows and "id=" no row
C14_IdQueries ==
  IdLoaded =>
    /\ search_input = <<"i", "d", "=", "4", "2">> => NameFlagged \cup ValueFlagged = {2}
    /\ search_input = <<"i", "d", "=", "*">> => NameFlagged \cup ValueFlagged = {2, 5}
    /\ search_input = <<"i", "d", "=">> => NameFlagged \cup ValueFlagged = {}

\* C14 amended: "id=42" flags exactly the first id row and "id=*" exactly both
\* id rows, each by name and by value; "id=" flags both id rows by name alone,
\* as the query "id" does
C14_IdQueriesNameAlone ==
  IdLoaded =>
    /\ search_input = <<"i", "d", "=", "4", "2">> => NameFlagged = {2} /\ ValueFlagged = {2}
    /\ search_input = <<"i", "d", "=", "*">> => NameFlagged = {2, 5} /\ ValueFlagged = {2, 5}
    /\ search_input = <<"i", "d", "=">> => NameFlagged = {2, 5} /\ ValueFlagged = {}
    /\ search_input = <<"i", "d">> => NameFlagged = {2, 5} /\ ValueFlagged = {}

\* the document is searched for "id="
C14_Witness ==
  /\ IdLoaded
  /\ search_input = <<"i", "d", "=">>
  /\ NameFlagged # {}

\* the ordered match set: the positions in visible_items of the rows with a
\* match flag, as a set, and its k-th member in increasing order (k from 0)
Matches == {p \in 0..(Len(visible_items) - 1) :
              At(visible_items, p).name_is_search_result \/ At(visible_items, p).value_is_search_result}

Match(k) == CHOOSE p \in Matches : Cardinality({q \in Matches : q < p}) = k

RECURSIVE NextTimes(_, _)
\* next_search_result k times in a row
NextTimes(s, k) == IF k = 0 THEN s ELSE NextTimes(next_search_result(s), k - 1)

\* C15: while browsing n >= 1 matches with the cursor at i, next_search_result
\* moves the cursor to (i + 1) mod n and previous_search_result to (i - 1) mod n,
\* each selects the match under the new cursor, next then previous restores
\* cursor and selection, and n times next returns to the starting match
C15_CyclicMatchNavigation ==
  (~panicked /\ Drawn /\ search_state = "BrowsingSearch") =>
    LET n == Cardinality(Matches)
        i == search_index
        forth == next_search_result(State)
        back == previous_search_result(State)
        there_and_back == previous_search_result(forth)
        around == NextTimes(State, n)
    IN /\ n >= 1 /\ i < n
       /\ ~forth.panicked /\ forth.search_state = "BrowsingSearch"
       /\ forth.search_index = (i + 1) % n /\ forth.selected = Some(Match((i + 1) % n))
       /\ ~back.panicked /\ back.search_state = "BrowsingSearch"
       /\ back.search_index = (i + n - 1) % n /\ back.selected = Some(Match((i + n - 1) % n))
       /\ ~there_and_back.panicked
       /\ there_and_back.search_index = i /\ there_and_back.selected = selected
       /\ ~around.panicked
       /\ around.search_index = i /\ around.selected = selected

Unflagged(rows) == \A k \in 1..Len(rows) : ~rows[k].name_is_search_result /\ ~rows[k].value_is_search_result

\* C16: with an empty search text no row is flagged: in every state whose
\* search text is empty, and after update_search_results (app_state.rs) or
\* update_search_results (search.rs) recomputes the flags for the empty text,
\* in whichever search state the program is in, without a panic
C16_EmptyQueryFlagsNothing ==
  (~panicked /\ Drawn) =>
    /\ search_input = <<>> => Unflagged(visible_items) /\ Unflagged(items)
    /\ LET emptied == update_search_results([State EXCEPT !.search_input = <<>>])
       IN ~emptied.panicked /\ Unflagged(emptied.visible_items) /\ Unflagged(emptied.items)
    /\ Unflagged(search_update_search_results(visible_items, <<>>))

\* the search text is empty while a query is composed over rows that have
\* names and scalar values
C16_Witness ==
  /\ ~panicked /\ Drawn
  /\ search_state = "Searching"
  /\ search_input = <<>>
  /\ \E k \in 1..Len(visible_items) : IsSome(visible_items[k].name) /\ visible_items[k].value.text # <<>>
  /\ SelectedIndex > 0

\* the rows whose collapsed flag differs between the current rows and after
FlippedBy(after) == {k \in 0..(Len(items) - 1) : At(after.items, k).collapsed # At(items, k).collapsed}

\* C17: with a scalar or a ContainerEnd selected, toggle_collapsed flips the
\* collapsed flag of the innermost container whose span holds the selected
\* row, and of no other row (wherever the command returns)
C17_ToggleFlipsEnclosing ==
  (/\ ~panicked /\ Drawn /\ search_state = "NotSearching"
   /\ ~IsOpen(SelectedRow.value.type)
   /\ IsSome(EnclosingOpen(items, SelectedId)))
  => LET after == toggle_collapsed(State)
     IN ~after.panicked => FlippedBy(after) = {Unwrap(EnclosingOpen(items, SelectedId))}

\* the ContainerOpen rows before the selected row, in row order
OpenBefore == {p \in OpenRows(items) : p < SelectedId}

\* C18 as stated: with a scalar or a ContainerEnd selected toggle_collapsed
\* changes no collapsed flag, no visible flag, not the selection and not
\* top_index (wherever the command returns)
C18_ToggleOffContainerNoOp ==
  (~panicked /\ Drawn /\ search_state = "NotSearching" /\ ~IsOpen(SelectedRow.value.type)) =>
    LET after == toggle_collapsed(State)
    IN ~after.panicked =>
         /\ \A k \in 1..Len(items) : after.items[k].collapsed = items[k].collapsed /\ after.items[k].visible = items[k].visible
         /\ after.selected = selected
         /\ after.top_index = top_index

\* C18 amended: with a scalar or a ContainerEnd selected toggle_collapsed is a
\* no-op only when no ContainerOpen row precedes the selected row (the
\* document is one scalar); otherwise it flips the collapsed flag of exactly
\* one row, the last ContainerOpen row before the selected row, and moves the
\* selection back by the number of rows between the two (onto that row when
\* all of them are visible), or panics: when that number exceeds the selected
\* visible index, and, with a list height below 2, when the position to
\* select is not 0
C18_ToggleOffContainerFlipsPreceding ==
  (~panicked /\ Drawn /\ search_state = "NotSearching" /\ ~IsOpen(SelectedRow.value.type)) =>
    LET after == toggle_collapsed(State)
    IN IF OpenBefore = {} THEN after = State
       ELSE LET target == CHOOSE p \in OpenBefore : \A other \in OpenBefore : other <= p
            IN IF SelectedIndex < SelectedId - target THEN after.panicked
               ELSE IF NoRoomFor(SelectedIndex - (SelectedId - target)) THEN after.panicked
               ELSE /\ ~after.panicked
                    /\ FlippedBy(after) = {target}
                    /\ after.selected = Some(SelectedIndex - (SelectedId - target))
                    /\ (\A k \in target..SelectedId : At(items, k).visible) => IdOf(after) = target

\* a scalar inside an expanded container is selected and every row before
\* it is visible
C18_Witness ==
  /\ ~panicked /\ Drawn /\ search_state = "NotSearching"
  /\ ~IsContainer(SelectedRow.value.type)
  /\ OpenBefore # {}
  /\ SelectedIndex = SelectedId
  /\ SelectedId >= 2

\* C19: collapse_level with a ContainerOpen selected at depth d leaves every
\* ContainerOpen row of depth d collapsed and the collapsed flag of every
\* other row as it was; with another kind of row selected it changes nothing
C19_CollapseLevelByDepth ==
  (~panicked /\ Drawn /\ search_state = "NotSearching") =>
    LET after == collapse_level(State)
    IN IF IsOpen(SelectedRow.value.type)
       THEN /\ ~after.panicked
            /\ \A k \in 1..Len(items) :
                 after.items[k].collapsed =
                   IF IsOpen(items[k].value.type) /\ items[k].indent = SelectedRow.indent
                   THEN TRUE
                   ELSE items[k].collapsed
       ELSE after = State

\* the window [top_index, bottom_index) is a slice of visible_items of at
\* most list_height - 1 rows, and display_items returns its rows
WindowValid ==
  /\ 0 <= top_index
  /\ top_index <= bottom_index(State)
  /\ bottom_index(State) <= Len(visible_items)
  /\ bottom_index(State) - top_index <= list_height - 1
  /\ ~display_items(State).panicked
  /\ Len(display_items(State).rows) = bottom_index(State) - top_index
  /\ \A k \in 1..Len(display_items(State).rows) : display_items(State).rows[k] = At(visible_items, top_index + k - 1)

\* C20: once a frame is drawn the render window is a valid slice of the
\* visible sequence in every state, and every step that shortens the visible
\* sequence ends in such a state
C20_WindowIsValidSlice ==
  /\ [](Drawn => WindowValid)
  /\ [][(Drawn /\ Len(visible_items') < Len(visible_items)) => WindowValid']_vars

\* the value-part as the whole text after the first "=" (None without a "=")
RemainderPart ==
  IF find(search_input, "=") = 0 THEN None
  ELSE Some(SubSeq(search_input, find(search_input, "=") + 1, Len(search_input)))

\* C21: the rows are flagged as for the name-part before the first "=" and
\* the value-part that is the entire remainder after it
C21_SplitOnFirstEquals ==
  \A k \in 1..Len(items) :
    LET row == items[k]
        in_name == NameMatches(row)
        in_value == search_in_value(value_str(row), RemainderPart)
        both == NamePart # <<>> /\ not_empty(RemainderPart)
    IN /\ row.name_is_search_result = IF both THEN in_name /\ in_value ELSE in_name
       /\ row.value_is_search_result = IF both THEN in_name /\ in_value ELSE in_value

\* C22: for a query without a value-part whose name-part holds a ".", a row
\* is name-flagged iff the text after the last "." is not empty, the row has a
\* name that contains it ignoring case, and the row's breadcrumbs contain the
\* text before the last "." ignoring case
C22_ScopedNameMatching ==
  (ValuePart = None /\ rfind(NamePart, ".") # 0) =>
    \A k \in 1..Len(items) :
      LET row == items[k]
          scope == ScopeAndName[1]
          name == ScopeAndName[2]
      IN row.name_is_search_result <=>
           /\ name # <<>>
           /\ IsSome(row.name)
           /\ contains(to_lowercase(Unwrap(row.name)), to_lowercase(name))
           /\ contains(to_lowercase(row.breadcrumbs), to_lowercase(scope))

\* the rows the value-part is meant to match: none when it is absent or
\* empty, those with a value text for "*", else those whose value text
\* contains it ignoring case
ValueExpected(row) ==
  IF ValuePart = None \/ ValuePart = Some(<<>>) THEN FALSE
  ELSE IF ValuePart = Some(<<"*">>) THEN value_str(row) # <<>>
  ELSE contains(to_lowercase(value_str(row)), to_lowercase(Unwrap(ValuePart)))

\* C23: no ContainerOpen or ContainerEnd row is value-flagged, whatever the
\* query; the value-part matches a row exactly when expected; and with an
\* empty name-part the value flag of every row is that match
C23_ValueMatching ==
  \A k \in 1..Len(items) :
    LET row == items[k]
    IN /\ IsContainer(row.value.type) => ~row.value_is_search_result
       /\ ValueMatches(row) = ValueExpected(row)
       /\ NamePart = <<>> => row.value_is_search_result = ValueExpected(row)

\* "=*" over a document with containers and scalars, one of them flagged
C23_Witness ==
  /\ NamePart = <<>> /\ ValuePart = Some(<<"*">>)
  /\ \E k \in 1..Len(items) : IsContainer(items[k].value.type)
  /\ \E k \in 1..Len(items) : items[k].value_is_search_result
  /\ \E k \in 1..Len(items) : ~IsContainer(items[k].value.type)

\* the flags update_is_search_result gives the rows for a search text while a
\* search is on
FlaggedFor(rows, text) == [k \in 1..Len(rows) |-> update_is_search_result(rows[k], text, TRUE)]

\* the current state as it is for a document with that many values
WithValues(count) == [State EXCEPT !.num_items_in_file = count]

\* C24: while a query is composed, a text edit on a document of more than
\* LargeFileThreshold values changes the search text alone, and submit then
\* flags the rows for the text as edited; on a document of up to
\* LargeFileThreshold values (the documents of this model among them) every
\* text edit flags the rows for the new text
C24_DeferredLiveSearch ==
  (~panicked /\ Drawn /\ search_state = "Searching") =>
    \A event \in QueryChars \cup {"Backspace"} :
      LET text == handle_event(search_input, event)
          large == update_search(WithValues(LargeFileThreshold + 1), event)
          submitted == finish_searching(large)
          small == update_search(WithValues(LargeFileThreshold), event)
          here == update_search(State, event)
      IN /\ large = [WithValues(LargeFileThreshold + 1) EXCEPT !.search_input = text]
         /\ ~submitted.panicked /\ submitted.visible_items = FlaggedFor(visible_items, text)
         /\ ~small.panicked /\ small.search_input = text /\ small.visible_items = FlaggedFor(visible_items, text)
         /\ num_items_in_file <= LargeFileThreshold
         /\ ~here.panicked /\ here.search_input = text /\ here.visible_items = FlaggedFor(visible_items, text)

\* the position of row k among the children of its parent row p
ChildIndex(p, k) ==
  Cardinality({j \in (p + 1)..(k - 1) : At(items, j).indent = At(items, k).indent /\ ~IsEnd(At(items, j).value.type)})

\* C25: the root row has the empty breadcrumb, a ContainerEnd that of its
\* ContainerOpen, and every other row that of its parent extended by one
\* segment (without a separator after an empty breadcrumb): "[index]" for the
\* element of an array, the key for the member of an object
C25_Breadcrumbs ==
  \A k \in 0..(Len(items) - 1) :
    LET row == At(items, k)
    IN IF IsEnd(row.value.type)
       THEN row.breadcrumbs = At(items, Unwrap(EnclosingOpen(items, k))).breadcrumbs
       ELSE IF row.indent = 0
       THEN row.breadcrumbs = <<>>
       ELSE LET parent == At(items, Unwrap(EnclosingOpen(items, k)))
                segment == IF parent.value.type = "Array"
                           THEN <<"[">> \o to_string(ChildIndex(Unwrap(EnclosingOpen(items, k)), k)) \o <<"]">>
                           ELSE Unwrap(row.name)
            IN row.breadcrumbs = IF parent.breadcrumbs = <<>> THEN segment
                                 ELSE parent.breadcrumbs \o Separator \o segment

\* C26: start_searching_for_name with a named row selected leaves the search
\* text equal to that row's name, the rows flagged for that name, the
\* selected row among them, and the state BrowsingSearch with the cursor and
\* the selection on the first match; with an unnamed row selected it changes
\* nothing
C26_SearchForCurrentName ==
  (~panicked /\ Drawn /\ search_state = "NotSearching") =>
    LET after == start_searching_for_name(State)
    IN IF IsSome(SelectedRow.name)
       THEN /\ ~after.panicked
            /\ after.search_input = Unwrap(SelectedRow.name)
            /\ after.visible_items = FlaggedFor(after.visible_items, Unwrap(SelectedRow.name))
            /\ \E k \in 1..Len(after.visible_items) :
                 /\ after.visible_items[k].line_number = SelectedId
                 /\ after.visible_items[k].name_is_search_result
            /\ after.search_state = "BrowsingSearch" /\ after.search_index = 0
            /\ after.selected = Some(search_results(after)[1])
       ELSE after = State

\* C27: in BrowsingSearch(Some(i)) there is at least one match, i is below the
\* number of matches and the i-th match is selected
C27_CursorOnSelectedMatch ==
  search_state = "BrowsingSearch" =>
    /\ Matches # {}
    /\ search_index < Cardinality(Matches)
    /\ selected = Some(Match(search_index))

\* the cursor has moved to the second match and the first match is not row 0
C27_Witness ==
  /\ ~panicked
  /\ search_state = "BrowsingSearch"
  /\ search_index = 1
  /\ Match(0) > 0

\* the step is a run of the handler whose result is s
Ran(s) ==
  /\ running' = running
  /\ State' = (IF s.panicked THEN [State EXCEPT !.panicked = TRUE] ELSE s)

\* the step is a frame drawn with another list height
Redrawn == \E h \in ListHeights : Ran(render(State, h))

\* C28: the search state changes as the event loop's state machine says:
\* NotSearching is left only for Searching and only by start_searching;
\* Searching is left only by a submit (to BrowsingSearch with cursor 0 when a
\* row matches, to NotSearching when none does) or a cancel, every other step
\* there is a text edit that keeps the loop running; BrowsingSearch is entered
\* only by that submit, and its steps are next match, previous match, cancel,
\* start_searching and quit; a step that is not one of the event loop, the
\* direct call of start_searching_for_name, is left aside
C28_SearchStateMachine ==
  [][IF panicked' THEN search_state' = search_state
     ELSE IF Ran(start_searching_for_name(State)) THEN TRUE
     ELSE /\ search_state = "NotSearching" =>
               \/ search_state' = "NotSearching"
               \/ search_state' = "Searching" /\ Ran(start_searching(State))
          /\ search_state = "Searching" =>
               \/ /\ Ran(finish_searching(State))
                  /\ search_state' = (IF Matches' # {} THEN "BrowsingSearch" ELSE "NotSearching")
                  /\ search_index' = 0
               \/ search_state' = "NotSearching" /\ Ran(cancel_searching(State))
               \/ /\ search_state' = "Searching"
                  /\ Redrawn \/ \E event \in QueryChars \cup {"Backspace"} : Ran(update_search(State, event))
          /\ search_state = "BrowsingSearch" =>
               \/ search_state' = "BrowsingSearch" /\ (Redrawn \/ Ran(next_search_result(State)) \/ Ran(previous_search_result(State)))
               \/ search_state' = "NotSearching" /\ Ran(cancel_searching(State))
               \/ search_state' = "Searching" /\ Ran(start_searching(State))
               \/ ~running' /\ State' = State]_vars

\* the loop was left with q while the matches were browsed, the cursor on the
\* second match
C28_Witness ==
  /\ ~panicked
  /\ ~running
  /\ search_state = "BrowsingSearch"
  /\ search_index = 1

\* no row is collapsed and visible_items holds every row at the position of its id
AllExpanded(rows, visible) ==
  /\ \A k \in 1..Len(rows) : ~rows[k].collapsed
  /\ Len(visible) = Len(rows)
  /\ \A p \in 0..(Len(visible) - 1) : At(visible, p).line_number = p /\ ~At(visible, p).collapsed

\* C29: while the search state is Searching or BrowsingSearch no row is
\* collapsed and every row is visible at the position of its id, and a step
\* that leaves the search leaves the rows expanded
C29_SearchExpandsAll ==
  /\ [](search_state # "NotSearching" => AllExpanded(items, visible_items))
  /\ [][(search_state # "NotSearching" /\ search_state' = "NotSearching") => AllExpanded(items', visible_items')]_vars

\* a search over a document with a nested container has been cancelled or has
\* found nothing, and the nested container's rows are visible
C29_Witness ==
  /\ ~panicked
  /\ search_state = "NotSearching"
  /\ search_input # <<>>
  /\ \E k \in 2..Len(items) : IsOpen(items[k].value.type) /\ ~IsEnd(items[k + 1].value.type)
  /\ AllExpanded(items, visible_items)

\* C30: while the search state is NotSearching no row of visible_items has
\* name_is_search_result or value_is_search_result set
C30_NoFlagsOutsideSearch == search_state = "NotSearching" => Unflagged(visible_items)

\* a search whose text matches a row was cancelled and a container was
\* collapsed afterwards
C30_Witness ==
  /\ ~panicked
  /\ search_state = "NotSearching"
  /\ search_input # <<>>
  /\ ~Unflagged(FlaggedFor(visible_items, search_input))
  /\ \E k \in 1..Len(items) : items[k].collapsed

====
